---- MODULE Spec2Model ----
(***************************************************************************)
(* Model of the document upload pipeline of document_upload.py             *)
(* (DocumentUploader.upload_document and the three steps it composes) and  *)
(* of the configuration values of config.py that the pipeline reads.       *)
(*                                                                         *)
(* Several invocations of upload_document run concurrently.  Each one is   *)
(* sequential; the points at which it can interleave with the others are   *)
(* its calls on the outside world: the filesystem (validate_file), the     *)
(* random source (uuid4), the S3 bucket (upload_to_s3) and the documents   *)
(* table (save_to_database).  The local filesystem belongs to the          *)
(* environment: what a call finds at a path is an input of that call, so   *)
(* a file may differ between the stat of validate_file and the read of     *)
(* upload_file.                                                            *)
(***************************************************************************)
EXTENDS Integers, Sequences, FiniteSets, TLC

\* ------------------------------------------------------------------ bounds

\* Number of upload_document invocations that may run concurrently.
NumInvocations == 2

\* The value the environment gives MAX_FILE_SIZE (52428800 by default),
\* scaled down; file sizes are drawn around it.
MaxFileSizeEnv == 2

\* ------------------------------------------------------------ configuration

None == <<>>

MAX_FILE_SIZE == MaxFileSizeEnv

AWS_REGION == "us-east-1"

S3_BUCKET_NAME == "syllabus-documents"

\* Values of the environment variable SUPPORTED_EXTENSIONS, as sequences of
\* tokens in which "," is the separator character.  The first is the default.
SupportedExtensionsEnv ==
    { <<".pdf", ",", ".doc", ",", ".docx">>,
      <<".PDF", ",", "docx">> }

\* str.split(','): the pieces between the separators, unchanged.
RECURSIVE SplitFrom(_, _, _)
SplitFrom(s, cur, acc) ==
    IF s = <<>> THEN Append(acc, cur)
    ELSE IF Head(s) = "," THEN SplitFrom(Tail(s), "", Append(acc, cur))
    ELSE SplitFrom(Tail(s), cur \o Head(s), acc)

Split(s) == SplitFrom(s, "", <<>>)

\* Config.SUPPORTED_EXTENSIONS for a value of the environment variable.
SUPPORTED_EXTENSIONS(env) == Split(env)

\* set(list)
ToSet(seq) == { seq[k] : k \in 1..Len(seq) }

\* -------------------------------------------------------------------- inputs

Invocations == 1..NumInvocations

Users == {"user123"}

\* Path(file_path): the parts of the path that the code reads.
Paths ==
    { [parent |-> "docs", stem |-> "REPORT", suffix |-> ".PDF"],
      [parent |-> "",     stem |-> "notes",  suffix |-> ".txt"] }

\* What the filesystem holds at a path at the moment of a call.
FileSizes == {MAX_FILE_SIZE, MAX_FILE_SIZE + 1}

\* A directory has the size of one directory block.
FsStates ==
    {[kind |-> "missing", size |-> 0], [kind |-> "dir", size |-> 1]}
        \cup [kind : {"file"}, size : FileSizes]

\* str.lower() on the suffixes of Paths
Lower(s) ==
    CASE s = ".PDF" -> ".pdf"
      [] OTHER -> s

\* Path.name
Name(p) == p.stem \o p.suffix

\* mimetypes.guess_type: by extension, case-insensitively; None, written
\* "None", if unknown
GuessType(p) ==
    CASE Lower(p.suffix) = ".pdf"  -> "application/pdf"
      [] Lower(p.suffix) = ".doc"  -> "application/msword"
      [] Lower(p.suffix) = ".docx" ->
            "application/vnd.openxmlformats-officedocument.wordprocessingml.document"
      [] OTHER -> "None"

\* ------------------------------------------------------------------- errors

\* An error string: its fixed text and the values formatted into it.
Error(text, formats, nums, cause) ==
    [text |-> text, formats |-> formats, nums |-> nums, cause |-> cause]

NotFoundError == Error("File does not exist", {}, <<>>, "")

UnsupportedFormatError(exts) ==
    Error("Unsupported file format. Supported formats: ", exts, <<>>, "")

TooLargeError(max_size, file_size) ==
    Error("File too large. Maximum size: , Current size: ", {},
          <<max_size, file_size>>, "")

ValidationError(cause) == Error("Validation error: ", {}, <<>>, cause)

S3UploadError(cause) == Error("S3 upload error: ", {}, <<>>, cause)

UploadError(cause) == Error("Upload error: ", {}, <<>>, cause)

DatabaseError(cause) == Error("Database error: ", {}, <<>>, cause)

\* -------------------------------------------------------------------- state

VARIABLES
    supported_extensions,  \* self.supported_extensions
    pc,                    \* position of each invocation of upload_document
    args,                  \* its arguments (file_path, user_id)
    observed,              \* what validate_file found at file_path
    validation_result,     \* locals of upload_document
    unique_name,
    upload_result,
    db_result,
    result,                \* the value upload_document returned
    s3,                    \* the objects of the bucket
    documents,             \* the rows of the documents table
    calls                  \* per invocation, the calls made on each step

vars ==
    << supported_extensions, pc, args, observed, validation_result,
       unique_name, upload_result, db_result, result, s3, documents,
       calls >>

NoCalls ==
    [validate |-> 0, put |-> 0, insert |-> 0, delete |-> 0]

Init ==
    /\ \E env \in SupportedExtensionsEnv :
           supported_extensions = ToSet(SUPPORTED_EXTENSIONS(env))
    /\ pc = [i \in Invocations |-> "Idle"]
    /\ args = [i \in Invocations |-> None]
    /\ observed = [i \in Invocations |-> None]
    /\ validation_result = [i \in Invocations |-> None]
    /\ unique_name = [i \in Invocations |-> None]
    /\ upload_result = [i \in Invocations |-> None]
    /\ db_result = [i \in Invocations |-> None]
    /\ result = [i \in Invocations |-> None]
    /\ s3 = {}
    /\ documents = {}
    /\ calls = [i \in Invocations |-> NoCalls]

\* --------------------------------------------------------------- operations

\* uuid.uuid4(): a value no other draw returns, named by the invocation
\* and the place in it that draws it
Uuid4(i, site) == <<i, site>>

\* Mutant: the extension is not checked.
SupportedAlways(file_extension, exts) == TRUE

\* validate_file: the extension check
Supported(file_extension, exts) == file_extension \in exts

\* Mutant: a file of exactly the maximum size is refused.
TooLargeInclusive(file_size, max_size) == file_size >= max_size

\* validate_file: the size check
TooLarge(file_size, max_size) == file_size > max_size

\* validate_file(file_path), given what the filesystem holds at the path and
\* whether stat() succeeds (the file can vanish after exists()).
validate_file(file_path, st, stat_ok) ==
    IF st.kind = "missing"
    THEN [valid |-> FALSE, error |-> NotFoundError]
    ELSE IF ~Supported(Lower(file_path.suffix), supported_extensions)
    THEN [valid |-> FALSE, error |-> UnsupportedFormatError(supported_extensions)]
    ELSE IF ~stat_ok
    THEN [valid |-> FALSE, error |-> ValidationError("stat")]
    ELSE IF TooLarge(st.size, MAX_FILE_SIZE)
    THEN [valid |-> FALSE, error |-> TooLargeError(MAX_FILE_SIZE, st.size)]
    ELSE [valid |-> TRUE,
          file_name |-> Name(file_path),
          file_extension |-> Lower(file_path.suffix),
          file_size |-> st.size,
          mime_type |-> GuessType(file_path),
          file_path |-> file_path]

\* Mutant: the UUID of the key is drawn once, not once per upload.
UniqueNameDrawnOnce(uuid, file_extension) ==
    <<Uuid4(0, "unique_name"), file_extension>>

\* Mutant: the key is built from the extension alone.
UniqueNameWithoutUuid(uuid, file_extension) == <<None, file_extension>>

\* the f-string of upload_document that builds the S3 key
UniqueName(uuid, file_extension) == <<uuid, file_extension>>

\* the f-string of upload_to_s3 that builds the object's URL
S3Url(file_name) == <<"https", S3_BUCKET_NAME, AWS_REGION, file_name>>

\* Mutant: the upload empties the bucket before it stores the object.
PutObjectAlone(bucket, key, size) == {[key |-> key, size |-> size]}

\* s3_client.upload_file: the object stored under a key replaces any other
PutObject(bucket, key, size) ==
    {o \in bucket : o.key # key} \cup {[key |-> key, size |-> size]}

\* the dict upload_document returns when a step failed
FailureResult(step_result) ==
    [success |-> FALSE, error |-> step_result.error]

\* Mutant: upload_document does not test the result of step 1.
AfterValidateUnchecked(v) == "Identifying"

\* upload_document after step 1: return if the file is not valid
AfterValidate(v) == IF ~v.valid THEN "Rejected" ELSE "Identifying"

\* Mutant: upload_document tries the upload again when it failed.
AfterStoreRetry(r) == IF ~r.success THEN "Storing" ELSE "Persisting"

\* Mutant: upload_document does not test the result of step 3.
AfterStoreUnchecked(r) == "Persisting"

\* upload_document after step 3: return if the upload failed
AfterStore(r) == IF ~r.success THEN "StorageFailed" ELSE "Persisting"

\* upload_document after step 4: return the error if the insert failed
AfterPersist(r) == IF ~r.success THEN "RepositoryFailed" ELSE "Done"

\* A caller invokes upload_document(file_path, user_id).
Begin(i) ==
    /\ pc[i] = "Idle"
    /\ \A j \in Invocations : j < i => pc[j] # "Idle"
    /\ \E p \in Paths, u \in Users :
           args' = [args EXCEPT ![i] = [file_path |-> p, user_id |-> u]]
    /\ pc' = [pc EXCEPT ![i] = "Validating"]
    /\ UNCHANGED << supported_extensions, observed, validation_result,
                    unique_name, upload_result, db_result, result, s3,
                    documents, calls >>

\* Step 1: validate the file, return its error if it is not valid.
Validate(i) ==
    /\ pc[i] = "Validating"
    /\ \E st \in FsStates, stat_ok \in BOOLEAN :
          LET v == validate_file(args[i].file_path, st, stat_ok) IN
          /\ observed' = [observed EXCEPT ![i] = st]
          /\ validation_result' = [validation_result EXCEPT ![i] = v]
          /\ pc' = [pc EXCEPT ![i] = AfterValidate(v)]
          /\ result' = [result EXCEPT ![i] =
                IF AfterValidate(v) = "Rejected" THEN FailureResult(v) ELSE @]
    /\ calls' = [calls EXCEPT ![i].validate = @ + 1]
    /\ UNCHANGED << supported_extensions, args, unique_name, upload_result,
                    db_result, s3, documents >>

\* Mutant: the key is built from the name of the file, not its extension.
IdentifyWithFileName(i) ==
    /\ pc[i] = "Identifying"
    /\ unique_name' = [unique_name EXCEPT ![i] =
           UniqueName(Uuid4(i, "unique_name"),
                      validation_result[i].file_name)]
    /\ pc' = [pc EXCEPT ![i] = "Storing"]
    /\ UNCHANGED << supported_extensions, args, observed, validation_result,
                    upload_result, db_result, result, s3, documents, calls >>

\* Step 2: generate the unique S3 key.
Identify(i) ==
    /\ pc[i] = "Identifying"
    /\ unique_name' = [unique_name EXCEPT ![i] =
           UniqueName(Uuid4(i, "unique_name"),
                      validation_result[i].file_extension)]
    /\ pc' = [pc EXCEPT ![i] = "Storing"]
    /\ UNCHANGED << supported_extensions, args, observed, validation_result,
                    upload_result, db_result, result, s3, documents, calls >>

\* How s3_client.upload_file can end: it returns, or raises one of the two
\* kinds of exception that upload_to_s3 tells apart.
PutOutcomes == {"ok", "ClientError", "Exception"}

\* s3_client.upload_file stores the object when the local path holds a
\* regular file and the transfer raises nothing.
Uploaded(rd, outcome) == rd.kind = "file" /\ outcome = "ok"

\* Mutant: the except clauses of upload_to_s3 swallow the failure.
upload_to_s3_swallowing(file_name, rd, outcome) ==
    [success |-> TRUE, s3_url |-> S3Url(file_name), s3_key |-> file_name]

\* upload_to_s3(file_path, file_name), given what upload_file finds at the
\* local path and how the transfer ends: its returned dict.
upload_to_s3(file_name, rd, outcome) ==
    IF rd.kind # "file"
    THEN [success |-> FALSE, error |-> UploadError("OSError")]
    ELSE IF outcome = "ClientError"
    THEN [success |-> FALSE, error |-> S3UploadError("ClientError")]
    ELSE IF outcome = "Exception"
    THEN [success |-> FALSE, error |-> UploadError("OSError")]
    ELSE [success |-> TRUE, s3_url |-> S3Url(file_name), s3_key |-> file_name]

\* Mutant: a lock shared by all uploads is held from the upload to the
\* insert.
StoreExclusive(i) ==
    /\ \A j \in Invocations \ {i} : pc[j] # "Persisting"
    /\ pc[i] = "Storing"
    /\ \E rd \in FsStates, outcome \in PutOutcomes :
          LET r == upload_to_s3(unique_name[i], rd, outcome) IN
          /\ s3' = IF Uploaded(rd, outcome)
                   THEN PutObject(s3, unique_name[i], rd.size) ELSE s3
          /\ upload_result' = [upload_result EXCEPT ![i] = r]
          /\ pc' = [pc EXCEPT ![i] = AfterStore(r)]
          /\ result' = [result EXCEPT ![i] =
                IF AfterStore(r) = "StorageFailed" THEN FailureResult(r) ELSE @]
    /\ calls' = [calls EXCEPT ![i].put = @ + 1]
    /\ UNCHANGED << supported_extensions, args, observed, validation_result,
                    unique_name, db_result, documents >>

\* Step 3: upload to S3, return its error if it failed.
Store(i) ==
    /\ pc[i] = "Storing"
    /\ \E rd \in FsStates, outcome \in PutOutcomes :
          LET r == upload_to_s3(unique_name[i], rd, outcome) IN
          /\ s3' = IF Uploaded(rd, outcome)
                   THEN PutObject(s3, unique_name[i], rd.size) ELSE s3
          /\ upload_result' = [upload_result EXCEPT ![i] = r]
          /\ pc' = [pc EXCEPT ![i] = AfterStore(r)]
          /\ result' = [result EXCEPT ![i] =
                IF AfterStore(r) = "StorageFailed" THEN FailureResult(r) ELSE @]
    /\ calls' = [calls EXCEPT ![i].put = @ + 1]
    /\ UNCHANGED << supported_extensions, args, observed, validation_result,
                    unique_name, db_result, documents >>

\* The row that save_to_database inserts (upload_date is not modelled).
DocumentRow(document_id, file_metadata, s3_url, user_id) ==
    [document_id |-> document_id,
     user_id |-> user_id,
     file_name |-> file_metadata.file_name,
     file_extension |-> file_metadata.file_extension,
     file_size |-> file_metadata.file_size,
     mime_type |-> file_metadata.mime_type,
     s3_url |-> s3_url,
     status |-> "uploaded"]

\* How a call of save_to_database can end: a statement up to commit()
\* raises, nothing committed; fetchone() or a close() raises after the
\* commit; nothing raises.
DbOutcomes == {"raises_before_commit", "raises_after_commit", "ok"}

\* save_to_database: whether the row is committed
Committed(outcome) == outcome \in {"raises_after_commit", "ok"}

\* save_to_database: its returned dict
save_to_database(document_id, outcome) ==
    IF outcome = "ok"
    THEN [success |-> TRUE, document_id |-> document_id,
          message |-> "Document metadata saved successfully"]
    ELSE [success |-> FALSE, error |-> DatabaseError("Exception")]

\* Mutant: the success dict reads a key that upload_to_s3 does not set.
SuccessResultWithoutUrl(db, validation, upload) ==
    [success |-> TRUE,
     document_id |-> db.document_id,
     file_name |-> validation.file_name,
     s3_url |-> None,
     message |-> "Document uploaded successfully"]

\* the dict upload_document returns after all steps succeeded
SuccessResult(db, validation, upload) ==
    [success |-> TRUE,
     document_id |-> db.document_id,
     file_name |-> validation.file_name,
     s3_url |-> upload.s3_url,
     message |-> "Document uploaded successfully"]

\* Mutant: upload_document deletes the uploaded object when
\* save_to_database reports a failure.
PersistCompensating(i) ==
    /\ pc[i] = "Persisting"
    /\ \E outcome \in DbOutcomes :
          LET r == save_to_database(Uuid4(i, "document_id"), outcome) IN
          /\ documents' =
                IF Committed(outcome)
                THEN documents \cup
                        {DocumentRow(Uuid4(i, "document_id"), validation_result[i],
                                     upload_result[i].s3_url, args[i].user_id)}
                ELSE documents
          /\ s3' = IF AfterPersist(r) = "RepositoryFailed"
                   THEN {o \in s3 : o.key # unique_name[i]}
                   ELSE s3
          /\ db_result' = [db_result EXCEPT ![i] = r]
          /\ pc' = [pc EXCEPT ![i] = AfterPersist(r)]
          /\ result' = [result EXCEPT ![i] =
                IF AfterPersist(r) = "RepositoryFailed"
                THEN FailureResult(r)
                ELSE SuccessResult(r, validation_result[i], upload_result[i])]
    /\ calls' = [calls EXCEPT ![i].insert = @ + 1]
    /\ UNCHANGED << supported_extensions, args, observed, validation_result,
                    unique_name, upload_result >>

\* Step 4: save the metadata, return its error if it failed, else succeed.
Persist(i) ==
    /\ pc[i] = "Persisting"
    /\ \E outcome \in DbOutcomes :
          LET r == save_to_database(Uuid4(i, "document_id"), outcome) IN
          /\ documents' =
                IF Committed(outcome)
                THEN documents \cup
                        {DocumentRow(Uuid4(i, "document_id"), validation_result[i],
                                     upload_result[i].s3_url, args[i].user_id)}
                ELSE documents
          /\ db_result' = [db_result EXCEPT ![i] = r]
          /\ pc' = [pc EXCEPT ![i] = AfterPersist(r)]
          /\ result' = [result EXCEPT ![i] =
                IF AfterPersist(r) = "RepositoryFailed"
                THEN FailureResult(r)
                ELSE SuccessResult(r, validation_result[i], upload_result[i])]
    /\ calls' = [calls EXCEPT ![i].insert = @ + 1]
    /\ UNCHANGED << supported_extensions, args, observed, validation_result,
                    unique_name, upload_result, s3 >>

\* Mutant: the pipeline does not go on after the upload.
StepUntilStored(i) == Validate(i) \/ Identify(i) \/ Store(i)

\* One step of one invocation that has been called.  Each of the three
\* steps catches every Exception itself and returns a dict, so nothing
\* raises into the outer handler of upload_document, whose return has the
\* shape of FailureResult.
Step(i) == Validate(i) \/ Identify(i) \/ Store(i) \/ Persist(i)

Next == \E i \in Invocations : Begin(i) \/ Step(i)

Spec == Init /\ [][Next]_vars

\* Every call made by upload_document returns: an invocation that has been
\* called keeps taking steps until it returns.
FairSpec == Spec /\ \A i \in Invocations : WF_vars(Step(i))

\* ------------------------------------------------------------ vocabulary

Terminal(i) ==
    pc[i] \in {"Done", "Rejected", "StorageFailed", "RepositoryFailed"}

\* upload_document has returned
Returned(i) == result[i] # None

\* validate_file has run in invocation i
Validated(i) == validation_result[i] # None

\* the objects of the bucket stored under the key of invocation i
BlobsOf(i) == {o \in s3 : o.key = unique_name[i]}

\* the rows of the table inserted by invocation i
RowsOf(i) == {r \in documents : r.document_id = Uuid4(i, "document_id")}

\* BlobStore.put was called in invocation i and stored nothing
PutFailed(i) == calls[i].put > 0 /\ BlobsOf(i) = {}

\* BlobStore.put was called in invocation i and stored the object
PutSucceeded(i) == calls[i].put > 0 /\ BlobsOf(i) # {}

StorageErrorTexts == {"S3 upload error: ", "Upload error: "}

\* ------------------------------------------------------------------ claims

\* C1: whenever a step commits a DocumentRecord, the blob its storage_url
\* names is already in the bucket in the state before that step: the storage
\* commit of an invocation strictly precedes its metadata commit.
C1_StorageBeforeMetadata ==
    [][\A r \in documents' \ documents :
          \E o \in s3 : S3Url(o.key) = r.s3_url]_vars

C1_Witness ==
    \E i \in Invocations : RowsOf(i) # {} /\ PutSucceeded(i)

\* C2: if the put of an invocation fails, its insert is never called, it
\* ends in StorageFailed returning success=false with the storage error, and
\* the failing step changes neither the catalog nor the bucket.
C2_PutFailureState ==
    \A i \in Invocations :
        PutFailed(i) =>
            /\ calls[i].insert = 0
            /\ RowsOf(i) = {}
            /\ pc[i] = "StorageFailed"
            /\ Returned(i)
            /\ result[i].success = FALSE
            /\ result[i].error = upload_result[i].error
            /\ result[i].error.text \in StorageErrorTexts

C2_PutFailureStep ==
    \A i \in Invocations :
        (pc[i] = "Storing" /\ pc'[i] # "Storing" /\ BlobsOf(i)' = {}) =>
            s3' = s3 /\ documents' = documents

C2_StorageFailed == []C2_PutFailureState /\ [][C2_PutFailureStep]_vars

C2_Witness ==
    \E i, j \in Invocations :
        /\ PutFailed(i) /\ pc[i] = "StorageFailed"
        /\ i # j /\ RowsOf(j) # {}

\* save_to_database was called in invocation i and reported failure
InsertFailed(i) == db_result[i] # None /\ ~db_result[i].success

\* C3 (as claimed): if put succeeds and insert fails, BlobStore.delete is
\* invoked exactly once for the key of the put, and the invocation returns
\* success=false.
C3_CompensatingDelete ==
    \A i \in Invocations :
        (PutSucceeded(i) /\ InsertFailed(i)) =>
            /\ calls[i].delete = 1
            /\ Returned(i)
            /\ result[i].success = FALSE

\* what validate_file found makes the file invalid
InvalidInput(i) ==
    \/ observed[i].kind = "missing"
    \/ Lower(args[i].file_path.suffix) \notin supported_extensions
    \/ observed[i].size > MAX_FILE_SIZE

\* C4: an invocation whose validation fails ends in Rejected, returns
\* success=false with the validator's error unchanged, uses no storage key
\* and calls neither put nor insert.
C4_Rejected ==
    \A i \in Invocations :
        (Validated(i) /\ (InvalidInput(i) \/ ~validation_result[i].valid)) =>
            /\ pc[i] = "Rejected"
            /\ ~validation_result[i].valid
            /\ result[i] = [success |-> FALSE,
                            error |-> validation_result[i].error]
            /\ unique_name[i] = None
            /\ calls[i].put = 0 /\ calls[i].insert = 0
            /\ upload_result[i] = None /\ db_result[i] = None
            /\ RowsOf(i) = {}

C4_Witness ==
    \E i, j \in Invocations :
        /\ pc[i] = "Rejected" /\ observed[i].size > MAX_FILE_SIZE
        /\ result[i].error.nums = <<MAX_FILE_SIZE, MAX_FILE_SIZE + 1>>
        /\ pc[j] = "Rejected" /\ observed[j].kind = "missing"

FailureShape(r) ==
    /\ DOMAIN r = {"success", "error"}
    /\ r.success = FALSE
    /\ r.error.text # ""

SuccessShape(r) ==
    /\ DOMAIN r = {"success", "document_id", "file_name", "s3_url", "message"}
    /\ r.success = TRUE
    /\ r.document_id # None
    /\ r.file_name # ""
    /\ r.s3_url # None

\* C5: an invocation has returned exactly when it is in a terminal state,
\* and what it returned is either success=false with a non-empty error or
\* success=true with document_id, file_name and s3_url populated.
C5_ResultShape ==
    \A i \in Invocations :
        /\ Terminal(i) <=> Returned(i)
        /\ Returned(i) => (FailureShape(result[i]) \/ SuccessShape(result[i]))
        /\ Returned(i) => (result[i].success <=> pc[i] = "Done")

C5_Witness ==
    \E i, j \in Invocations :
        /\ Returned(i) /\ result[i].success
        /\ Returned(j) /\ ~result[j].success /\ pc[j] = "RepositoryFailed"

\* C6: each invocation that returned success=true has exactly one row, with
\* the returned document_id, the caller's user_id and file name, status
\* uploaded and the returned s3_url, which names exactly one stored object
\* and no other row; two successful invocations differ in document_id and
\* in s3_url.
C6_OneRecordPerSuccess ==
    \A i \in Invocations :
        (Returned(i) /\ result[i].success) =>
            LET rows == {r \in documents :
                            r.document_id = result[i].document_id}
            IN  /\ Cardinality(rows) = 1
                /\ \A r \in rows :
                      /\ r.user_id = args[i].user_id
                      /\ r.file_name = Name(args[i].file_path)
                      /\ r.status = "uploaded"
                      /\ r.s3_url = result[i].s3_url
                /\ Cardinality({o \in s3 :
                                   S3Url(o.key) = result[i].s3_url}) = 1
                /\ Cardinality({r \in documents :
                                   r.s3_url = result[i].s3_url}) = 1
                /\ \A j \in Invocations \ {i} :
                      (Returned(j) /\ result[j].success) =>
                          /\ result[j].document_id # result[i].document_id
                          /\ result[j].s3_url # result[i].s3_url

C6_Witness ==
    \E i, j \in Invocations :
        /\ i # j /\ pc[i] = "Done" /\ pc[j] = "Done"
        /\ args[i] = args[j]

\* stat() raised in validate_file
StatFailed(i) ==
    /\ ~validation_result[i].valid
    /\ validation_result[i].error.text = "Validation error: "

\* validate_file found a regular file with an allowed extension and read
\* its size
ExistingAllowedFile(i) ==
    /\ Validated(i)
    /\ observed[i].kind = "file"
    /\ Lower(args[i].file_path.suffix) \in supported_extensions
    /\ ~StatFailed(i)

\* C7: an existing file with an allowed extension is rejected, with the
\* TooLarge error, exactly when its size is greater than the maximum; a file
\* of exactly the maximum size passes validation, its upload calls put and
\* then insert, and succeeds when both succeed.
C7_SizeBoundary ==
    \A i \in Invocations :
        ExistingAllowedFile(i) =>
            /\ validation_result[i].valid <=>
                    ~(observed[i].size > MAX_FILE_SIZE)
            /\ ~validation_result[i].valid =>
                    validation_result[i].error =
                        TooLargeError(MAX_FILE_SIZE, observed[i].size)
            /\ observed[i].size = MAX_FILE_SIZE =>
                    /\ pc[i] # "Rejected"
                    /\ Terminal(i) => calls[i].put = 1
                    /\ (Terminal(i) /\ PutSucceeded(i)) => calls[i].insert = 1
                    /\ (Terminal(i) /\ PutSucceeded(i) /\ ~InsertFailed(i)) =>
                            pc[i] = "Done" /\ result[i].success

C7_Witness ==
    \E i, j \in Invocations :
        /\ ExistingAllowedFile(i) /\ observed[i].size = MAX_FILE_SIZE
        /\ pc[i] = "Done"
        /\ ExistingAllowedFile(j) /\ observed[j].size = MAX_FILE_SIZE + 1
        /\ pc[j] = "Rejected"

\* the extension of the path is outside the allow-set
UnsupportedInput(i) ==
    Lower(args[i].file_path.suffix) \notin supported_extensions

\* an invocation that was rejected with the given error and called neither
\* put nor insert
RejectedWith(i, error) ==
    /\ pc[i] = "Rejected"
    /\ result[i] = [success |-> FALSE, error |-> error]
    /\ calls[i].put = 0 /\ calls[i].insert = 0

\* C8 (as claimed): whatever else is true of the path, an extension outside
\* the allow-set gives success=false with the UnsupportedFormat error naming
\* the supported formats, and neither put nor insert is called.
C8_UnsupportedWhateverThePath ==
    \A i \in Invocations :
        (Validated(i) /\ UnsupportedInput(i)) =>
            RejectedWith(i, UnsupportedFormatError(supported_extensions))

\* C8 (amended): an extension outside the allow-set gives success=false and
\* no call of put or insert; the error is UnsupportedFormat, naming the
\* supported formats, when something exists at the path, whatever its size,
\* and NotFound when nothing exists there.
C8_UnsupportedWhenExists ==
    \A i \in Invocations :
        (Validated(i) /\ UnsupportedInput(i)) =>
            IF observed[i].kind = "missing"
            THEN RejectedWith(i, NotFoundError)
            ELSE /\ RejectedWith(i, UnsupportedFormatError(supported_extensions))
                 /\ result[i].error.formats = supported_extensions
                 /\ result[i].error.formats # {}

C8_Witness ==
    \E i, j \in Invocations :
        /\ Validated(i) /\ UnsupportedInput(i) /\ observed[i].kind = "file"
        /\ observed[i].size > MAX_FILE_SIZE
        /\ Validated(j) /\ UnsupportedInput(j) /\ observed[j].kind = "missing"

\* C9: in one invocation validation, put and insert are each called at most
\* once, a failure of any of them is what the invocation returns, and what
\* it returned is never changed by a later step or call.
C9_AtMostOnce ==
    \A i \in Invocations :
        /\ calls[i].validate <= 1
        /\ calls[i].put <= 1
        /\ calls[i].insert <= 1
        /\ (Validated(i) /\ ~validation_result[i].valid) =>
                RejectedWith(i, validation_result[i].error)
        /\ (upload_result[i] # None /\ ~upload_result[i].success) =>
                /\ pc[i] = "StorageFailed"
                /\ result[i] = [success |-> FALSE,
                                error |-> upload_result[i].error]
        /\ InsertFailed(i) =>
                /\ pc[i] = "RepositoryFailed"
                /\ result[i] = [success |-> FALSE,
                                error |-> db_result[i].error]

C9_FailureIsFinal ==
    \A i \in Invocations :
        Returned(i) => (result'[i] = result[i] /\ calls'[i] = calls[i])

C9_NoRetry == []C9_AtMostOnce /\ [][C9_FailureIsFinal]_vars

C9_Witness ==
    \E i, j \in Invocations :
        /\ pc[i] = "StorageFailed" /\ calls[i].put = 1
        /\ pc[j] = "RepositoryFailed" /\ calls[j].insert = 1

\* C10: when every call returns, an invocation that has been called reaches
\* a terminal state, in particular once it is Storing, and an invocation in
\* a terminal state stays in it.
C10_RunsToTerminal ==
    /\ \A i \in Invocations : (pc[i] # "Idle") ~> Terminal(i)
    /\ \A i \in Invocations : (pc[i] = "Storing") ~> Terminal(i)
    /\ [][\A i \in Invocations : Terminal(i) => pc'[i] = pc[i]]_vars

C10_Witness ==
    \E i, j \in Invocations :
        /\ pc[i] = "Storing"
        /\ pc[j] = "RepositoryFailed"

\* BlobStore.put has been called in invocation i (with unique_name[i])
PutCalled(i) == calls[i].put > 0

\* C11: an invocation puts only under the one key it generated, no two
\* invocations put under the same key, also when one is a new attempt on
\* the file of a failed one, and a put never replaces an object that is
\* already in the bucket.
C11_OneKeyPerAttempt ==
    \A i \in Invocations :
        /\ PutCalled(i) => unique_name[i] # None
        /\ PutSucceeded(i) =>
              /\ upload_result[i].s3_key = unique_name[i]
              /\ upload_result[i].s3_url = S3Url(unique_name[i])
        /\ \A j \in Invocations \ {i} :
              (PutCalled(i) /\ PutCalled(j)) => unique_name[i] # unique_name[j]

C11_KeyIsKept ==
    \A i \in Invocations :
        unique_name[i] # None => unique_name'[i] = unique_name[i]

C11_NoOverwrite ==
    \A o \in s3' \ s3 : \A q \in s3 : q.key # o.key

C11_FreshKeys ==
    /\ []C11_OneKeyPerAttempt
    /\ [][C11_KeyIsKept /\ C11_NoOverwrite]_vars

C11_Witness ==
    \E i, j \in Invocations :
        /\ pc[i] = "StorageFailed" /\ PutSucceeded(j)
        /\ args[i] = args[j]
        /\ unique_name[i] # unique_name[j]

\* the locals of invocation i and what it returned
LocalState(i) ==
    << pc[i], args[i], observed[i], validation_result[i], unique_name[i],
       upload_result[i], db_result[i], result[i], calls[i] >>

\* the terminal state that the results of the steps of invocation i give
OutcomeOf(i) ==
    IF ~Validated(i) THEN "None"
    ELSE IF ~validation_result[i].valid THEN "Rejected"
    ELSE IF upload_result[i] = None THEN "None"
    ELSE IF ~upload_result[i].success THEN "StorageFailed"
    ELSE IF db_result[i] = None THEN "None"
    ELSE IF ~db_result[i].success THEN "RepositoryFailed"
    ELSE "Done"

\* invocation i can take its next step, and the step can succeed
CanProceed(i) ==
    /\ pc[i] = "Validating" => ENABLED Validate(i)
    /\ pc[i] = "Identifying" => ENABLED Identify(i)
    /\ pc[i] = "Storing" => ENABLED (Store(i) /\ pc'[i] = "Persisting")
    /\ pc[i] = "Persisting" => ENABLED (Persist(i) /\ pc'[i] = "Done")

\* C12: the terminal state of an invocation is given by its own validation,
\* put and insert results; whatever the other invocations do, it can take
\* its next step and the step can succeed; two uploads that both succeed,
\* also of the same file, leave two objects and two rows.
C12_OwnOutcome ==
    \A i \in Invocations :
        /\ Terminal(i) => pc[i] = OutcomeOf(i)
        /\ CanProceed(i)
        /\ \A j \in Invocations \ {i} :
              (pc[i] = "Done" /\ pc[j] = "Done") =>
                  /\ BlobsOf(i) # {} /\ BlobsOf(j) # {}
                  /\ BlobsOf(i) \cap BlobsOf(j) = {}
                  /\ RowsOf(i) # {} /\ RowsOf(j) # {}
                  /\ RowsOf(i) \cap RowsOf(j) = {}

\* a step changes the locals of one invocation only
C12_OwnStep ==
    \A i, j \in Invocations :
        (i # j /\ LocalState(i)' # LocalState(i)) =>
            LocalState(j)' = LocalState(j)

C12_Independent == []C12_OwnOutcome /\ [][C12_OwnStep]_vars

C12_Witness ==
    \E i, j \in Invocations :
        /\ i # j /\ args[i] = args[j]
        /\ pc[i] = "Done" /\ pc[j] = "Done"
        /\ observed[i] = observed[j]
        /\ Cardinality(s3) = 2 /\ Cardinality(documents) = 2

\* C13 (as claimed): when no regular file exists at the path, because
\* nothing is there or because what is there is a directory, validation
\* fails with NotFound, produces no descriptor, and the upload is Rejected.
C13_NotFoundUnlessRegularFile ==
    \A i \in Invocations :
        (Validated(i) /\ observed[i].kind # "file") =>
            /\ ~validation_result[i].valid
            /\ validation_result[i].error = NotFoundError
            /\ pc[i] = "Rejected"

\* C14 (as claimed): when save_to_database reports failure no row of the
\* attempt is in the table, and when the row is committed it reports
\* success with the document_id of the row.
C14_InsertAllOrNothing ==
    \A i \in Invocations :
        /\ InsertFailed(i) => RowsOf(i) = {}
        /\ RowsOf(i) # {} =>
              /\ db_result[i] # None
              /\ db_result[i].success
              /\ \A r \in RowsOf(i) : db_result[i].document_id = r.document_id

\* C15: a step leaves every row and every object that exists unchanged; it
\* adds at most one row, with status uploaded and a document_id no row has,
\* and at most one object, under a key no object has.
C15_OnlyAdds ==
    /\ documents \subseteq documents'
    /\ s3 \subseteq s3'
    /\ Cardinality(documents' \ documents) <= 1
    /\ Cardinality(s3' \ s3) <= 1
    /\ \A r \in documents' \ documents :
          /\ r.status = "uploaded"
          /\ \A q \in documents : q.document_id # r.document_id
    /\ \A o \in s3' \ s3 : \A q \in s3 : q.key # o.key

C15_Frame == [][C15_OnlyAdds]_vars

C15_Witness ==
    /\ Cardinality(documents) = 2
    /\ Cardinality(s3) = 2
    /\ \E i \in Invocations : pc[i] = "RepositoryFailed"

\* Paths that differ from a path of Paths in directory or stem only.
SiblingPaths ==
    { [parent |-> d, stem |-> n, suffix |-> p.suffix] :
          d \in {"docs", "tmp", ""}, n \in {"REPORT", "notes", "syllabus"},
          p \in Paths }

\* the key upload_document builds for a path whose validation succeeds
\* with the given drawn UUID
KeyFor(uuid, file_path, st) ==
    UniqueName(uuid, validate_file(file_path, st, TRUE).file_extension)

\* C16: the key of every put is the UUID the invocation drew followed by
\* the lowercased extension of the path, which is in the allow-set; paths
\* that differ in directory or stem only are validated alike and, with the
\* same UUID, get the same key.
C16_KeyFromUuidAndExtension ==
    /\ \A i \in Invocations :
          PutCalled(i) =>
              /\ unique_name[i] =
                    <<Uuid4(i, "unique_name"), Lower(args[i].file_path.suffix)>>
              /\ unique_name[i][2] \in supported_extensions
    /\ \A p \in Paths, q \in SiblingPaths, st \in FsStates :
          p.suffix = q.suffix =>
              /\ validate_file(p, st, TRUE).valid
                    = validate_file(q, st, TRUE).valid
              /\ validate_file(p, st, TRUE).valid =>
                    KeyFor(Uuid4(0, "unique_name"), p, st)
                        = KeyFor(Uuid4(0, "unique_name"), q, st)

C16_Witness ==
    \E i \in Invocations :
        /\ PutSucceeded(i)
        /\ \E q \in SiblingPaths :
              /\ q.suffix = args[i].file_path.suffix
              /\ q.stem # args[i].file_path.stem
              /\ q.parent # args[i].file_path.parent
              /\ validate_file(q, observed[i], TRUE).valid

\* A configured entry in lowercase with a leading separator, for the
\* entries of SupportedExtensionsEnv.
NormalizeEntry(e) ==
    CASE e = ".PDF" -> ".pdf"
      [] e = "docx" -> ".docx"
      [] OTHER -> e

\* validation refused the extension
RefusedAsUnsupported(i) ==
    /\ ~validation_result[i].valid
    /\ validation_result[i].error.text
          = UnsupportedFormatError(supported_extensions).text

\* C17 (as claimed): the extension of a file is accepted exactly when its
\* lowercased form is the normalized form (lowercase, leading separator) of
\* some configured entry.
C17_NormalizedAllowSet ==
    \A i \in Invocations :
        (Validated(i) /\ observed[i].kind # "missing") =>
            (~RefusedAsUnsupported(i) <=>
                Lower(args[i].file_path.suffix) \in
                    {NormalizeEntry(e) : e \in supported_extensions})

\* the objects of the bucket a row of the table points to
BlobsAt(r) == {o \in s3 : S3Url(o.key) = r.s3_url}

C18_RecordsHaveBlobs == \A r \in documents : BlobsAt(r) # {}

C18_BlobsAreKept ==
    \A r \in documents : \A o \in BlobsAt(r) : \E p \in s3' : p.key = o.key

\* C18: in every reachable state every row of the documents table points to
\* an object that is in the bucket, and no step removes an object that a
\* committed row points to, whatever the interleaving of the uploads and
\* whichever calls to S3 or the database fail.
C18_RecordsReferenceBlobs ==
    []C18_RecordsHaveBlobs /\ [][C18_BlobsAreKept]_vars

\* one upload failed after its row was committed, another failed in S3
C18_Witness ==
    \E i \in Invocations : \E j \in Invocations \ {i} :
        /\ pc[i] = "RepositoryFailed"
        /\ RowsOf(i) # {}
        /\ \A r \in RowsOf(i) : BlobsAt(r) # {}
        /\ pc[j] = "StorageFailed"

\* C19 (as claimed): the file_size of a committed row is the size of the
\* object stored under the row's s3_url and is at most MAX_FILE_SIZE, also
\* when the local file changes between the stat() of validate_file and the
\* read of upload_file.
C19_RecordedSizeIsStoredSize ==
    \A r \in documents :
        /\ r.file_size <= MAX_FILE_SIZE
        /\ \A o \in BlobsAt(r) :
              /\ o.size = r.file_size
              /\ o.size <= MAX_FILE_SIZE

====
